---- MODULE Spec2Model ----
(***************************************************************************)
(* Model of the compatibility engine of src/dating-algorithm.py            *)
(* (class DatingMatchmaker): the question configuration, the user          *)
(* registry, the per-pair scoring, find_matches and batch_processing.      *)
(*                                                                         *)
(* Numbers.  Python floats are modelled by exact rationals <<n, d>> with   *)
(* d > 0 in lowest terms.  <<0, 0>> is the float NaN and <<1, 0>> is       *)
(* float('inf').  Answers are kept in the registry as integers counting    *)
(* tenths (8 is the answer 0.8) and are converted by Ans where the code    *)
(* reads them.                                                             *)
(***************************************************************************)
EXTENDS Integers, Sequences, FiniteSets, TLC

(***************************************************************************)
(* Exact arithmetic standing for float arithmetic                          *)
(***************************************************************************)
RECURSIVE GCD(_, _)
GCD(a, b) == IF b = 0 THEN a ELSE GCD(b, a % b)

IAbs(n) == IF n < 0 THEN -n ELSE n

NaN == <<0, 0>>
Inf == <<1, 0>>

IsNaN(x) == x = NaN
IsInf(x) == x = Inf

Rat(n, d) ==
    LET g == GCD(IAbs(n), IAbs(d))
        s == IF d < 0 THEN -1 ELSE 1
    IN  <<(s * n) \div g, (s * d) \div g>>

Whole(n) == <<n, 1>>

RAdd(x, y) ==
    IF IsNaN(x) \/ IsNaN(y) THEN NaN
    ELSE Rat(x[1] * y[2] + y[1] * x[2], x[2] * y[2])

RNeg(x) == IF IsNaN(x) THEN NaN ELSE <<-x[1], x[2]>>

RSub(x, y) == RAdd(x, RNeg(y))

RMul(x, y) ==
    IF IsNaN(x) \/ IsNaN(y) THEN NaN
    ELSE Rat(x[1] * y[1], x[2] * y[2])

\* x / y for numpy floats: 0/0 is nan (a RuntimeWarning, not an exception).
RDiv(x, y) ==
    IF IsNaN(x) \/ IsNaN(y) THEN NaN
    ELSE IF y[1] = 0 THEN NaN
    ELSE Rat(x[1] * y[2], x[2] * y[1])

RAbs(x) == IF IsNaN(x) THEN NaN ELSE <<IAbs(x[1]), x[2]>>

\* x > y; every comparison with NaN is false, inf exceeds every finite number.
RGreater(x, y) ==
    IF IsNaN(x) \/ IsNaN(y) THEN FALSE
    ELSE IF IsInf(y) THEN FALSE
    ELSE IF IsInf(x) THEN TRUE
    ELSE x[1] * y[2] > y[1] * x[2]

\* Python's min(x, y): y if y < x else x.
RMin(x, y) == IF RGreater(x, y) THEN y ELSE x

RECURSIVE SqrtFrom(_, _)
SqrtFrom(n, r) == IF r * r >= n THEN r ELSE SqrtFrom(n, r + 1)

\* The square root of a perfect square (the inputs of the model are chosen so
\* that every root the code takes is of the square of a rational).
ISqrt(n) == CHOOSE r \in {SqrtFrom(n, 0)} : r * r = n

RSqrt(x) == IF IsNaN(x) THEN NaN ELSE <<ISqrt(x[1]), ISqrt(x[2])>>

\* floor(n / d) for d > 0
Floor(x) == x[1] \div x[2]

\* Python's round(x) of a finite float: to the nearest integer, ties to even.
RoundHalfEven(x) ==
    LET f    == Floor(x)
        twoR == 2 * (x[1] - f * x[2])
    IN  IF twoR < x[2] THEN f
        ELSE IF twoR > x[2] THEN f + 1
        ELSE IF f % 2 = 0 THEN f ELSE f + 1

\* An answer as the code reads it: the stored tenths as a number.
Ans(t) == Rat(t, 10)

RClip(x, lo, hi) ==
    IF IsNaN(x) THEN NaN
    ELSE IF RGreater(lo, x) THEN lo
    ELSE IF RGreater(x, hi) THEN hi
    ELSE x

RECURSIVE RSumRange(_, _, _)
RSumRange(s, lo, hi) ==
    IF lo > hi THEN Whole(0)
    ELSE IF lo = hi THEN s[lo]
    ELSE LET mid == (lo + hi) \div 2
         IN  RAdd(RSumRange(s, lo, mid), RSumRange(s, mid + 1, hi))

\* The sum of a sequence of numbers (np.sum, Python's sum)
RSum(s) == RSumRange(s, 1, Len(s))

\* numpy's elementwise product and np.dot of two equally long arrays
VMul(u, v) == [k \in 1..Len(u) |-> RMul(u[k], v[k])]
Dot(u, v) == RSum(VMul(u, v))

(***************************************************************************)
(* QuestionConfig: a sequence of entries in the dict's insertion order;    *)
(* entry k is question index k - 1.                                        *)
(***************************************************************************)
Entry(w, t) == [weight |-> w, match_type |-> t]

_default_question_config ==
    [k \in 1..100 |->
        LET i == k - 1
        IN  IF i < 20 THEN Entry(Whole(5), "similarity")
            ELSE IF i < 40 THEN Entry(Whole(3), "similarity")
            ELSE IF i < 60 THEN Entry(Rat(5, 2), "similarity")
            ELSE IF i < 70 THEN Entry(Whole(2), "complementary")
            ELSE IF i < 90 THEN Entry(Rat(3, 2), "similarity")
            ELSE Entry(Whole(10), "dealbreaker")]

\* A caller-supplied configuration of four questions (indices 0..3).
CustomConfig ==
    << Entry(Whole(1), "similarity"), Entry(Whole(1), "similarity"),
       Entry(Whole(2), "complementary"), Entry(Whole(4), "dealbreaker") >>

\* __init__: questions_config or self._default_question_config()
InitConfig(config) ==
    IF config = <<>> THEN _default_question_config ELSE config

\* The question indices in the dict's iteration order
AllIndices(cfg) == [k \in 1..Len(cfg) |-> k - 1]

\* [i for i, config in self.questions_config.items() if config['match_type'] == t]
Indices(cfg, t) == SelectSeq(AllIndices(cfg), LAMBDA i : cfg[i + 1].match_type = t)

\* user['answers'][indices]
Pick(answers, indices) == [k \in 1..Len(indices) |-> Ans(answers[indices[k] + 1])]

\* [self.questions_config[i]['weight'] for i in indices]
Weights(cfg, indices) == [k \in 1..Len(indices) |-> cfg[indices[k] + 1].weight]

\* weights / weights.sum()
Normalize(w) == LET total == RSum(w) IN [k \in 1..Len(w) |-> RDiv(w[k], total)]

\* sum(config['weight'] ... if config['match_type'] == t)
TypeWeight(cfg, t) == RSum(Weights(cfg, Indices(cfg, t)))

(***************************************************************************)
(* ScoringEngine                                                           *)
(***************************************************************************)
\* scipy.spatial.distance.cosine(u, v, w): 1 - u.v / sqrt((u.u)(v.v)) under
\* the weights w (<<>> is w=None), clipped to [0, 2]; nan when a vector is 0.
cosine(u, v, w) ==
    LET ww == IF w = <<>> THEN [k \in 1..Len(u) |-> Whole(1)] ELSE Normalize(w)
        uv == Dot(u, VMul(v, ww))
        uu == Dot(u, VMul(u, ww))
        vv == Dot(v, VMul(v, ww))
    IN  RClip(RSub(Whole(1), RDiv(uv, RSqrt(RMul(uu, vv)))), Whole(0), Whole(2))

DealbreakerThreshold == Rat(7, 10)

\* _check_dealbreakers with the difference taken without abs()
_check_dealbreakers_signed(cfg, user1, user2) ==
    SelectSeq(AllIndices(cfg),
              LAMBDA q_idx :
                  /\ cfg[q_idx + 1].match_type = "dealbreaker"
                  /\ RGreater(RSub(Ans(user1.answers[q_idx + 1]),
                                   Ans(user2.answers[q_idx + 1])),
                              DealbreakerThreshold))

_check_dealbreakers(cfg, user1, user2) ==
    SelectSeq(AllIndices(cfg),
              LAMBDA q_idx :
                  /\ cfg[q_idx + 1].match_type = "dealbreaker"
                  /\ RGreater(RAbs(RSub(Ans(user1.answers[q_idx + 1]),
                                        Ans(user2.answers[q_idx + 1]))),
                              DealbreakerThreshold))

\* ((loc1[0] - loc2[0])**2 + (loc1[1] - loc2[1])**2)**0.5
_calculate_distance(loc1, loc2) ==
    RSqrt(Whole((loc1[1] - loc2[1]) * (loc1[1] - loc2[1])
                + (loc1[2] - loc2[2]) * (loc1[2] - loc2[2])))

\* dict.get('max_distance', float('inf'))
GetMaxDistance(p) ==
    IF "max_distance" \in DOMAIN p THEN Whole(p.max_distance) ELSE Inf

\* _check_preferences with the bound of user1 alone
_check_preferences_of_user1(user1, user2) ==
    IF DOMAIN user1.preferences = {} \/ DOMAIN user2.preferences = {} THEN TRUE
    ELSE IF /\ "location" \in DOMAIN user1.preferences
            /\ "location" \in DOMAIN user2.preferences
    THEN ~ RGreater(_calculate_distance(user1.preferences.location,
                                        user2.preferences.location),
                    GetMaxDistance(user1.preferences))
    ELSE TRUE

\* _check_preferences rejecting a distance equal to the bound
_check_preferences_at_bound(user1, user2) ==
    IF DOMAIN user1.preferences = {} \/ DOMAIN user2.preferences = {} THEN TRUE
    ELSE IF /\ "location" \in DOMAIN user1.preferences
            /\ "location" \in DOMAIN user2.preferences
    THEN RGreater(RMin(GetMaxDistance(user1.preferences),
                       GetMaxDistance(user2.preferences)),
                  _calculate_distance(user1.preferences.location,
                                      user2.preferences.location))
    ELSE TRUE

_check_preferences(user1, user2) ==
    IF DOMAIN user1.preferences = {} \/ DOMAIN user2.preferences = {} THEN TRUE
    ELSE IF /\ "location" \in DOMAIN user1.preferences
            /\ "location" \in DOMAIN user2.preferences
         THEN LET max_distance ==
                      RMin(GetMaxDistance(user1.preferences),
                           GetMaxDistance(user2.preferences))
                  actual_distance ==
                      _calculate_distance(user1.preferences.location,
                                          user2.preferences.location)
              IN  ~ RGreater(actual_distance, max_distance)
         ELSE TRUE

_calculate_similarity(cfg, user1, user2) ==
    LET similarity_indices == Indices(cfg, "similarity")
    IN  IF similarity_indices = <<>> THEN Whole(1)
        ELSE RSub(Whole(1),
                  cosine(Pick(user1.answers, similarity_indices),
                         Pick(user2.answers, similarity_indices),
                         Normalize(Weights(cfg, similarity_indices))))

_calculate_complementarity(cfg, user1, user2) ==
    LET complementary_indices == Indices(cfg, "complementary")
        u1 == Pick(user1.answers, complementary_indices)
        u2 == Pick(user2.answers, complementary_indices)
        comp_scores ==
            [k \in 1..Len(u1) |->
                RSub(Whole(1),
                     RMul(RAbs(RSub(RAbs(RSub(u1[k], u2[k])), Rat(1, 2))), Whole(2)))]
        weights == Normalize(Weights(cfg, complementary_indices))
    IN  IF complementary_indices = <<>> THEN Whole(1)
        ELSE RDiv(Dot(comp_scores, weights), RSum(weights))

\* range(lo, hi) as the list of its indices
Range(lo, hi) == [k \in 1..(hi - lo) |-> lo + k - 1]

CategoryNames == <<"values", "lifestyle", "personality", "interests">>

CategoryRange(c) ==
    CASE c = "values" -> Range(0, 20)
      [] c = "lifestyle" -> Range(20, 40)
      [] c = "personality" -> Range(40, 70)
      [] c = "interests" -> Range(70, 90)

\* The similarity of one category before it is rounded.
CategorySimilarity(user1, user2, c) ==
    RSub(Whole(1),
         cosine(Pick(user1.answers, CategoryRange(c)),
                Pick(user2.answers, CategoryRange(c)), <<>>))

\* round(x) of a float: the nearest integer, and nan for nan in a build where
\* round of a numpy nan returns nan (where it raises, the caller raises).
PyRound(x) == IF IsNaN(x) THEN NaN ELSE Whole(RoundHalfEven(x))

_calculate_category_scores(user1, user2) ==
    [c \in {CategoryNames[k] : k \in 1..Len(CategoryNames)} |->
        PyRound(RMul(CategorySimilarity(user1, user2, c), Whole(100)))]

(***************************************************************************)
(* Inputs of the model                                                     *)
(***************************************************************************)
\* The number of user ids, and the largest top_n asked of find_matches.
MaxUsers == 3
MaxTopN == 2

\* len(answers) != 100 in add_user
ExpectedAnswers == 100

UserIds == 1..MaxUsers
TopNs == -1..MaxTopN

\* What round() does with a numpy nan depends on the numpy build: it raises
\* ValueError, or it returns nan.
RoundNaN == {"ValueError", "nan"}

\* The questions_config arguments of the constructor (<<>> is None).
ConfigInputs == {<<>>, CustomConfig}

\* An answer list of n answers, in tenths: similarity questions alternate x, y;
\* the complementary band 60..69 alternates c1, c2; the band 90..99 alternates
\* d1, d2.
Answers(n, x, y, c1, c2, d1, d2) ==
    [k \in 1..n |->
        LET i == k - 1
        IN  IF i >= 60 /\ i < 70 THEN (IF i % 2 = 0 THEN c1 ELSE c2)
            ELSE IF i >= 90 THEN (IF i % 2 = 0 THEN d1 ELSE d2)
            ELSE IF i % 2 = 0 THEN x ELSE y]

AnswersA == Answers(100, 8, 4, 1, 7, 1, 1)
AnswersB == Answers(100, 4, 8, 7, 1, 2, 1)
AnswersC == Answers(100, 8, 4, 1, 7, 9, 1)
AnswersM == Answers(100, -8, -4, 1, 7, 1, 1)
AnswersZ == Answers(100, 0, 0, 0, 0, 0, 0)

\* The answer lists add_user accepts in this model
AnswerVectors == {AnswersA, AnswersB, AnswersC, AnswersM, AnswersZ}

NoPreferences == <<>>

\* The (answers, preferences) arguments of add_user.  preferences=None and
\* preferences={} are both stored as {} (NoPreferences).
UserInputs ==
    { [answers |-> AnswersA, preferences |-> [location |-> <<0, 0>>, max_distance |-> 5]],
      [answers |-> AnswersB, preferences |-> [location |-> <<3, 4>>]],
      [answers |-> AnswersC, preferences |-> [location |-> <<6, 8>>, max_distance |-> 4]],
      [answers |-> AnswersM, preferences |-> [max_distance |-> 1]],
      [answers |-> AnswersZ, preferences |-> NoPreferences],
      [answers |-> Answers(99, 8, 4, 1, 7, 1, 1), preferences |-> NoPreferences],
      [answers |-> Answers(Len(CustomConfig), 8, 4, 1, 7, 1, 1),
       preferences |-> NoPreferences] }

(***************************************************************************)
(* Outcomes of a call                                                      *)
(***************************************************************************)
Raise(message) == [raised |-> "ValueError", message |-> message]
Return(v) == [raised |-> "none", value |-> v]

UserNotFound == Raise("User not found in database")
InvalidAnswerLength == Raise("Expected 100 answers for all questions")
RoundOfNaN == Raise("cannot convert float NaN to integer")

(***************************************************************************)
(* UserRegistry: self.users, a dict; a sequence of its items in insertion  *)
(* order.                                                                  *)
(***************************************************************************)
Keys(us) == [k \in 1..Len(us) |-> us[k].user_id]
Has(us, user_id) == \E k \in 1..Len(us) : us[k].user_id = user_id
Get(us, user_id) == us[CHOOSE k \in 1..Len(us) : us[k].user_id = user_id]

\* self.users[user_id] = {...}: in place for a known key, appended otherwise
Put(us, user_id, record) ==
    LET item == [user_id |-> user_id, answers |-> record.answers,
                 preferences |-> record.preferences]
    IN  IF Has(us, user_id)
        THEN [k \in 1..Len(us) |-> IF us[k].user_id = user_id THEN item ELSE us[k]]
        ELSE Append(us, item)

add_user(us, user_id, answers, preferences) ==
    IF Len(answers) # ExpectedAnswers
    THEN [outcome |-> InvalidAnswerLength, users |-> us]
    ELSE [outcome |-> Return("None"),
          users |-> Put(us, user_id, [answers |-> answers, preferences |-> preferences])]

(***************************************************************************)
(* CompatibilityService                                                    *)
(***************************************************************************)
\* total_weight without the weights of the dealbreaker questions
total_weight_scored(cfg) ==
    RAdd(TypeWeight(cfg, "similarity"), TypeWeight(cfg, "complementary"))

\* total_weight = sum(config['weight'] for config in self.questions_config.values())
total_weight(cfg) == RSum(Weights(cfg, AllIndices(cfg)))

\* total_score of lines 98-103
total_score(cfg, similarity_score, complementary_score) ==
    RDiv(RAdd(RMul(TypeWeight(cfg, "similarity"), similarity_score),
              RMul(TypeWeight(cfg, "complementary"), complementary_score)),
         total_weight(cfg))

\* Everything calculate_compatibility computes from the two answer lists.
ScorePair(cfg, user1, user2) ==
    LET similarity_score == _calculate_similarity(cfg, user1, user2)
        complementary_score == _calculate_complementarity(cfg, user1, user2)
    IN  [dealbreakers |-> _check_dealbreakers(cfg, user1, user2),
         similarity_score |-> similarity_score,
         complementary_score |-> complementary_score,
         total_score |-> total_score(cfg, similarity_score, complementary_score),
         category_scores |-> _calculate_category_scores(user1, user2)]

\* ScorePair tabulated, so that each pair of answer lists is scored once.
PairScores ==
    [cfg \in {InitConfig(c) : c \in ConfigInputs}, a1 \in AnswerVectors, a2 \in AnswerVectors |->
        ScorePair(cfg, [answers |-> a1], [answers |-> a2])]

\* calculate_compatibility from line 83 on, for the two records and the scores
\* s of their answer lists.
compatibility_of(user1, user2, s, round_nan) ==
    LET percentage == PyRound(RMul(s.total_score, Whole(100)))
        breakdown ==
            [matched |-> TRUE,
             overall_score |-> percentage,
             similarity_score |-> PyRound(RMul(s.similarity_score, Whole(100))),
             complementary_score |-> PyRound(RMul(s.complementary_score, Whole(100))),
             category_scores |-> s.category_scores]
        rounds_nan ==
            \/ IsNaN(s.total_score) \/ IsNaN(s.similarity_score)
            \/ IsNaN(s.complementary_score)
            \/ \E c \in DOMAIN s.category_scores : IsNaN(s.category_scores[c])
    IN  IF s.dealbreakers # <<>>
        THEN Return([score |-> Whole(0),
                     breakdown |-> [matched |-> FALSE, dealbreakers |-> s.dealbreakers]])
        ELSE IF ~ _check_preferences(user1, user2)
        THEN Return([score |-> Whole(0),
                     breakdown |-> [matched |-> FALSE, reason |-> "preference_mismatch"]])
        ELSE IF rounds_nan /\ round_nan = "ValueError" THEN RoundOfNaN
        ELSE Return([score |-> percentage, breakdown |-> breakdown])

\* calculate_compatibility looking up user1 without the membership test
calculate_compatibility_unguarded(cfg, us, user1_id, user2_id, round_nan) ==
    IF ~ Has(us, user2_id) THEN UserNotFound
    ELSE IF ~ Has(us, user1_id) THEN [raised |-> "KeyError", message |-> "user1_id"]
    ELSE compatibility_of(Get(us, user1_id), Get(us, user2_id),
                          PairScores[cfg, Get(us, user1_id).answers,
                                     Get(us, user2_id).answers],
                          round_nan)

calculate_compatibility(cfg, us, user1_id, user2_id, round_nan) ==
    IF ~ Has(us, user1_id) \/ ~ Has(us, user2_id) THEN UserNotFound
    ELSE compatibility_of(Get(us, user1_id), Get(us, user2_id),
                          PairScores[cfg, Get(us, user1_id).answers,
                                     Get(us, user2_id).answers],
                          round_nan)

(***************************************************************************)
(* MatchFinder                                                             *)
(***************************************************************************)
\* list.sort(key=lambda x: x[1], reverse=True): stable, by score descending
SortByScoreDescending(m) ==
    LET rank(k) ==
            1 + Cardinality({j \in 1..Len(m) : RGreater(m[j][2], m[k][2])})
              + Cardinality({j \in 1..(k - 1) : m[j][2] = m[k][2]})
    IN  [p \in 1..Len(m) |-> m[CHOOSE k \in 1..Len(m) : rank(k) = p]]

\* match_scores[:top_n]
SliceTo(m, top_n) ==
    IF top_n >= 0
    THEN SubSeq(m, 1, IF top_n < Len(m) THEN top_n ELSE Len(m))
    ELSE SubSeq(m, 1, IF Len(m) + top_n > 0 THEN Len(m) + top_n ELSE 0)

\* find_matches once the loop has called calculate_compatibility for each of
\* the others: results[k] is the outcome for others[k].  An exception leaves
\* the loop at the first call that raises.
matches_of(others, results, top_n) ==
    LET scored == [k \in 1..Len(others) |->
                      <<others[k], results[k].value.score, results[k].value.breakdown>>]
        match_scores == SelectSeq(scored, LAMBDA t : RGreater(t[2], Whole(0)))
    IN  IF \E k \in 1..Len(others) : results[k].raised # "none"
        THEN results[CHOOSE k \in 1..Len(others) :
                        /\ results[k].raised # "none"
                        /\ \A j \in 1..(k - 1) : results[j].raised = "none"]
        ELSE Return(SliceTo(SortByScoreDescending(match_scores), top_n))

\* for potential_match_id in self.users, skipping user_id
Others(us, user_id) == SelectSeq(Keys(us), LAMBDA id : id # user_id)

find_matches(cfg, us, user_id, top_n, round_nan) ==
    IF ~ Has(us, user_id) THEN UserNotFound
    ELSE matches_of(Others(us, user_id),
                    [k \in 1..Len(Others(us, user_id)) |->
                        calculate_compatibility(cfg, us, user_id,
                                                Others(us, user_id)[k], round_nan)],
                    top_n)

(***************************************************************************)
(* BatchMatrixBuilder                                                      *)
(***************************************************************************)
\* The loops of batch_processing; calls lists the pairs that
\* calculate_compatibility was called with.  BatchCell is one pass of the inner
\* loop, r the outcome of calculate_compatibility(user1_id, user2_id) if the
\* pass comes to call it.
RECURSIVE BatchInner(_, _, _, _, _, _, _)
\* One pass of the inner loop without the reuse of the mirrored cell
BatchCell_recomputing(cfg, us, round_nan, i, j, matrix, calls, r) ==
    LET user1_id == us[i].user_id
        user2_id == us[j].user_id
    IN  IF user1_id = user2_id
        THEN BatchInner(cfg, us, round_nan, i, j + 1, matrix, calls)
        ELSE IF r.raised # "none" THEN r
        ELSE BatchInner(cfg, us, round_nan, i, j + 1,
                        [matrix EXCEPT ![user1_id] = (user2_id :> r.value) @@ @],
                        Append(calls, <<user1_id, user2_id>>))

BatchCell(cfg, us, round_nan, i, j, matrix, calls, r) ==
    LET user1_id == us[i].user_id
        user2_id == us[j].user_id
    IN  IF user1_id = user2_id
        THEN BatchInner(cfg, us, round_nan, i, j + 1, matrix, calls)
        ELSE IF user2_id \in DOMAIN matrix /\ user1_id \in DOMAIN matrix[user2_id]
        THEN BatchInner(cfg, us, round_nan, i, j + 1,
                        [matrix EXCEPT ![user1_id] =
                            (user2_id :> matrix[user2_id][user1_id]) @@ @],
                        calls)
        ELSE IF r.raised # "none" THEN r
        ELSE BatchInner(cfg, us, round_nan, i, j + 1,
                        [matrix EXCEPT ![user1_id] = (user2_id :> r.value) @@ @],
                        Append(calls, <<user1_id, user2_id>>))

BatchInner(cfg, us, round_nan, i, j, matrix, calls) ==
    IF j > Len(us) THEN [raised |-> "none", matrix |-> matrix, calls |-> calls]
    ELSE BatchCell(cfg, us, round_nan, i, j, matrix, calls,
                   calculate_compatibility(cfg, us, us[i].user_id, us[j].user_id,
                                           round_nan))

RECURSIVE BatchOuter(_, _, _, _, _, _)
BatchRow(cfg, us, round_nan, i, row) ==
    IF row.raised # "none" THEN row
    ELSE BatchOuter(cfg, us, round_nan, i + 1, row.matrix, row.calls)

BatchOuter(cfg, us, round_nan, i, matrix, calls) ==
    IF i > Len(us) THEN [raised |-> "none", value |-> matrix, calls |-> calls]
    ELSE BatchRow(cfg, us, round_nan, i,
                  BatchInner(cfg, us, round_nan, i, 1,
                             (us[i].user_id :> <<>>) @@ matrix, calls))

batch_processing(cfg, us, round_nan) == BatchOuter(cfg, us, round_nan, 1, <<>>, <<>>)

(***************************************************************************)
(* The engine as a state machine                                           *)
(***************************************************************************)
VARIABLES
    questions_config,   \* self.questions_config
    users,              \* self.users
    ret                 \* the last call: its name, its arguments, its outcome

vars == <<questions_config, users, ret>>

\* __init__
Init ==
    /\ \E c \in ConfigInputs : questions_config = InitConfig(c)
    /\ users = <<>>
    /\ ret = [op |-> "__init__"]

\* add_user(user_id, answers, preferences); a new user takes the next free id
AddUser ==
    \E user_id \in UserIds, input \in UserInputs :
        /\ Has(users, user_id) \/ user_id = Len(users) + 1
        /\ users' = add_user(users, user_id, input.answers, input.preferences).users
        /\ ret' = [op |-> "add_user", user_id |-> user_id,
                   answers |-> input.answers, preferences |-> input.preferences,
                   outcome |-> add_user(users, user_id, input.answers,
                                        input.preferences).outcome]
        /\ UNCHANGED questions_config

CalculateCompatibility ==
    \E user1_id \in UserIds, user2_id \in UserIds, round_nan \in RoundNaN :
        /\ ret' = [op |-> "calculate_compatibility",
                   user1_id |-> user1_id, user2_id |-> user2_id,
                   outcome |-> calculate_compatibility(questions_config, users,
                                                       user1_id, user2_id, round_nan)]
        /\ UNCHANGED <<questions_config, users>>

FindMatches ==
    \E user_id \in UserIds, top_n \in TopNs, round_nan \in RoundNaN :
        /\ ret' = [op |-> "find_matches", user_id |-> user_id, top_n |-> top_n,
                   outcome |-> find_matches(questions_config, users, user_id, top_n,
                                            round_nan)]
        /\ UNCHANGED <<questions_config, users>>

BatchProcessing ==
    \E round_nan \in RoundNaN :
        /\ ret' = [op |-> "batch_processing",
                   outcome |-> batch_processing(questions_config, users, round_nan)]
        /\ UNCHANGED <<questions_config, users>>

Next == AddUser \/ CalculateCompatibility \/ FindMatches \/ BatchProcessing

Spec == Init /\ [][Next]_vars

(***************************************************************************)
(* Properties                                                              *)
(***************************************************************************)
Registered == {users[k].user_id : k \in 1..Len(users)}

\* The answers of a registered user, in tenths
AnswersOf(id) == Get(users, id).answers
PreferencesOf(id) == Get(users, id).preferences

\* The call the last step made
CalledCompatibility == ret.op = "calculate_compatibility"
CalledFindMatches == ret.op = "find_matches"
CalledBatch == ret.op = "batch_processing"

\* The elements of a finite set of integers, ascending
Ascending(S) ==
    [k \in 1..Cardinality(S) |->
        CHOOSE e \in S : Cardinality({d \in S : d < e}) = k - 1]

\* The dealbreaker questions on which a and b differ by more than 0.7
Violated(a, b) ==
    {i \in 0..(Len(questions_config) - 1) :
        /\ questions_config[i + 1].match_type = "dealbreaker"
        /\ IAbs(AnswersOf(a)[i + 1] - AnswersOf(b)[i + 1]) > 7}

\* Both users have preferences and a location, and the squared distance of the
\* locations exceeds the square of some stated bound.
TooFar(a, b) ==
    LET pa == PreferencesOf(a)
        pb == PreferencesOf(b)
        bounds == {p.max_distance : p \in {q \in {pa, pb} : "max_distance" \in DOMAIN q}}
    IN  /\ DOMAIN pa # {} /\ DOMAIN pb # {}
        /\ "location" \in DOMAIN pa /\ "location" \in DOMAIN pb
        /\ \E m \in bounds :
              \/ m < 0
              \/ (pa.location[1] - pb.location[1]) * (pa.location[1] - pb.location[1])
                 + (pa.location[2] - pb.location[2]) * (pa.location[2] - pb.location[2])
                 > m * m

\* C1: a violated dealbreaker question makes calculate_compatibility return
\* score 0 with matched false and the list of all violated dealbreaker indices
\* in order, whatever the other answers and the preferences are.
C1_DealbreakerVeto ==
    \A a \in Registered, b \in Registered, round_nan \in RoundNaN :
        Violated(a, b) # {} =>
            calculate_compatibility(questions_config, users, a, b, round_nan)
            = Return([score |-> Whole(0),
                      breakdown |-> [matched |-> FALSE,
                                     dealbreakers |-> Ascending(Violated(a, b))]])

\* A call that was vetoed although the pair also fails the preference check
C1_Witness ==
    /\ CalledCompatibility
    /\ ret.user1_id \in Registered /\ ret.user2_id \in Registered
    /\ Violated(ret.user1_id, ret.user2_id) # {}
    /\ TooFar(ret.user1_id, ret.user2_id)
    /\ ret.outcome.raised = "none"
    /\ ret.outcome.value.breakdown.matched = FALSE

\* C2: calculate_compatibility(x, y) and calculate_compatibility(y, x) have the
\* same outcome (score and breakdown) for all registered x and y.
C2_Symmetry ==
    \A a \in Registered, b \in Registered, round_nan \in RoundNaN :
        calculate_compatibility(questions_config, users, a, b, round_nan)
        = calculate_compatibility(questions_config, users, b, a, round_nan)

\* A scored call on two users of whom only the second states a max_distance
C2_Witness ==
    /\ CalledCompatibility
    /\ ret.user1_id \in Registered /\ ret.user2_id \in Registered
    /\ ret.user1_id # ret.user2_id
    /\ "location" \in DOMAIN PreferencesOf(ret.user1_id)
    /\ "max_distance" \notin DOMAIN PreferencesOf(ret.user1_id)
    /\ "max_distance" \in DOMAIN PreferencesOf(ret.user2_id)
    /\ ret.outcome.raised = "none"
    /\ ret.outcome.value.breakdown.matched = TRUE
    /\ RGreater(ret.outcome.value.score, Whole(0))

\* C3: add_user fails exactly when len(answers) differs from the number of
\* questions of the configuration; a failure leaves the registry unchanged, and
\* a success stores the record under user_id, leaving the other records as
\* they were.
C3_LengthValidation ==
    [][ (ret'.op = "add_user" /\ (ret' # ret \/ users' # users)) =>
          IF Len(ret'.answers) # Len(questions_config)
          THEN ret'.outcome.raised # "none" /\ users' = users
          ELSE /\ ret'.outcome.raised = "none"
               /\ Has(users', ret'.user_id)
               /\ Get(users', ret'.user_id).answers = ret'.answers
               /\ Get(users', ret'.user_id).preferences = ret'.preferences
               /\ \A k \in 1..Len(users) :
                     users[k].user_id # ret'.user_id => users'[k] = users[k] ]_vars

\* The score of a returned outcome is an integer within 0..100
IsPercent(v) == v[2] = 1 /\ v[1] >= 0 /\ v[1] <= 100

\* Every pair of registered users is scored with an integer within 0..100
ScoresWellFormed ==
    \A a \in Registered, b \in Registered, round_nan \in RoundNaN :
        LET r == calculate_compatibility(questions_config, users, a, b, round_nan)
        IN  r.raised = "none" /\ IsPercent(r.value.score)

\* The others with a score other than 0, as find_matches is to list them
Candidates(user_id) ==
    SelectSeq(Others(users, user_id),
              LAMBDA id :
                  calculate_compatibility(questions_config, users, user_id, id, "nan")
                      .value.score # Whole(0))

ScoreWith(user_id, id) ==
    calculate_compatibility(questions_config, users, user_id, id, "nan").value.score

\* s is t reordered by score descending, equal scores in the order of t
IsRanking(s, t, user_id) ==
    /\ Len(s) = Len(t)
    /\ \A k \in 1..Len(t) : \E p \in 1..Len(s) : s[p][1] = t[k]
    /\ \A p \in 1..Len(s), q \in 1..Len(s) :
          p < q =>
             \/ RGreater(s[p][2], s[q][2])
             \/ /\ s[p][2] = s[q][2]
                /\ \E i \in 1..Len(t), j \in 1..Len(t) :
                      i < j /\ t[i] = s[p][1] /\ t[j] = s[q][1]
    /\ \A p \in 1..Len(s) :
          /\ s[p][2] = ScoreWith(user_id, s[p][1])
          /\ s[p][3] = calculate_compatibility(questions_config, users, user_id,
                                               s[p][1], "nan").value.breakdown

\* The number of entries the claim allows: top_n, and none for a top_n below 0
Allowed(top_n, n) == IF top_n < 0 THEN 0 ELSE IF top_n < n THEN top_n ELSE n

\* C4: where every pair is scored with an integer within 0..100, find_matches
\* returns the first top_n entries of the ranking of the other users with a
\* score other than 0, and so at most top_n entries, for every integer top_n.
C4_FindMatchesTopN ==
    (CalledFindMatches /\ ret.user_id \in Registered /\ ScoresWellFormed) =>
        /\ ret.outcome.raised = "none"
        /\ Len(ret.outcome.value) = Allowed(ret.top_n, Len(Candidates(ret.user_id)))
        /\ \E full \in {find_matches(questions_config, users, ret.user_id,
                                     Len(users), "nan").value} :
              /\ IsRanking(full, Candidates(ret.user_id), ret.user_id)
              /\ ret.outcome.value = SubSeq(full, 1, Len(ret.outcome.value))

\* C5: batch_processing returns a matrix keyed by the registered users, each
\* row keyed by the other users, with one calculate_compatibility call per
\* unordered pair whose result is stored in both directions.
C5_BatchMatrix ==
    (CalledBatch /\ ret.outcome.raised = "none") =>
        LET matrix == ret.outcome.value
            calls == ret.outcome.calls
        IN  /\ DOMAIN matrix = Registered
            /\ \A a \in Registered : DOMAIN matrix[a] = Registered \ {a}
            /\ \A a \in Registered, b \in Registered :
                  a # b =>
                     /\ matrix[a][b] = matrix[b][a]
                     /\ Cardinality({k \in 1..Len(calls) :
                                         calls[k] \in {<<a, b>>, <<b, a>>}}) = 1
                     /\ \E round_nan \in RoundNaN :
                           Return(matrix[a][b]) =
                               calculate_compatibility(questions_config, users, a, b,
                                                       round_nan)

\* A matrix returned for a registry of at least three users
C5_Witness ==
    /\ CalledBatch
    /\ ret.outcome.raised = "none"
    /\ Len(users) >= 3
    /\ \E a \in Registered, b \in Registered :
          a # b /\ ret.outcome.value[a][b].breakdown.matched = TRUE

\* The sum of the weights of the questions of one match_type
W(t) ==
    RSum([k \in 1..Len(questions_config) |->
             IF questions_config[k].match_type = t
             THEN questions_config[k].weight ELSE Whole(0)])

\* n is x rounded to the nearest integer (ties to the even one)
IsRounded(n, x) ==
    LET twice == RSub(RMul(x, Whole(2)), Whole(2 * n))
    IN  /\ ~ RGreater(twice, Whole(1))
        /\ ~ RGreater(Whole(-1), twice)
        /\ (twice = Whole(1) \/ twice = Whole(-1)) => n % 2 = 0

\* C6: a pair that passes the dealbreaker and the preference check is returned
\* the percentage round(100 (Wsim sim + Wcmp cmp) / (Wsim + Wcmp + Wdeal)),
\* with matched true and overall_score that percentage.
C6_WeightedTotal ==
    LET Wsim == W("similarity")
        Wcmp == W("complementary")
        Wall == RAdd(RAdd(W("similarity"), W("complementary")), W("dealbreaker"))
    IN  \A a \in Registered, b \in Registered, round_nan \in RoundNaN :
            LET r == calculate_compatibility(questions_config, users, a, b, round_nan)
                s == PairScores[questions_config, AnswersOf(a), AnswersOf(b)]
                x == RDiv(RMul(Whole(100),
                               RAdd(RMul(Wsim, s.similarity_score),
                                    RMul(Wcmp, s.complementary_score))),
                          Wall)
            IN  (Violated(a, b) = {} /\ ~ TooFar(a, b) /\ r.raised = "none") =>
                    /\ r.value.breakdown.matched = TRUE
                    /\ r.value.breakdown.overall_score = r.value.score
                    /\ IF IsNaN(x) THEN IsNaN(r.value.score)
                       ELSE /\ r.value.score[2] = 1
                            /\ IsRounded(r.value.score[1], x)

\* A scored call under a configuration with dealbreaker weight, where neither
\* the similarity nor the complementary score is 0 or 100
C6_Witness ==
    /\ CalledCompatibility
    /\ ret.outcome.raised = "none"
    /\ ret.outcome.value.breakdown.matched = TRUE
    /\ W("dealbreaker") # Whole(0)
    /\ ret.outcome.value.breakdown.similarity_score \notin {NaN, Whole(0), Whole(100)}
    /\ ret.outcome.value.breakdown.complementary_score \notin {NaN, Whole(0), Whole(100)}
    /\ ret.outcome.value.score \notin {NaN, Whole(0)}
    /\ RGreater(ret.outcome.value.breakdown.similarity_score, Whole(0))
    /\ RGreater(ret.outcome.value.score, Whole(0))

\* C7: calculate_compatibility returns an integer percentage within 0..100
\* for every pair of users in the registry.
C7_PercentageRange == ScoresWellFormed

\* C8: calculate_compatibility with an unregistered id, and find_matches for
\* an unregistered id, fail with "User not found" and leave the registry as
\* it was.
C8_UserNotFound ==
    [][ /\ (/\ ret'.op = "calculate_compatibility"
            /\ ret' # ret
            /\ (ret'.user1_id \notin Registered \/ ret'.user2_id \notin Registered))
           => (ret'.outcome = UserNotFound /\ users' = users)
        /\ (/\ ret'.op = "find_matches"
            /\ ret' # ret
            /\ ret'.user_id \notin Registered)
           => (ret'.outcome = UserNotFound /\ users' = users) ]_vars

\* A call with a registered first id and an unregistered second id has failed
C8_Witness ==
    /\ CalledCompatibility
    /\ ret.user1_id \in Registered
    /\ ret.user2_id \notin Registered
    /\ ret.outcome = UserNotFound

\* C9: two registered users with identical answers and no preference conflict
\* are matched with similarity_score 100 and complementary_score 0.
C9_IdenticalAnswers ==
    \A a \in Registered, b \in Registered, round_nan \in RoundNaN :
        (AnswersOf(a) = AnswersOf(b) /\ ~ TooFar(a, b)) =>
            LET r == calculate_compatibility(questions_config, users, a, b, round_nan)
            IN  /\ r.raised = "none"
                /\ r.value.breakdown.matched = TRUE
                /\ r.value.breakdown.similarity_score = Whole(100)
                /\ r.value.breakdown.complementary_score = Whole(0)

\* The outcome of a pair rejected by the preference check, the reason under
\* the key tag
Rejected(tag) ==
    Return([score |-> Whole(0),
            breakdown |-> [k \in {"matched", tag} |->
                              IF k = "matched" THEN FALSE ELSE "preference_mismatch"]])

====
